---- MODULE Spec2Model ----
(***************************************************************************)
(* Risk-gated tool-execution pipeline of the AI Copilot server:            *)
(*   - ToolsService (server/services/openai.ts): target policy guard,      *)
(*     risk assessor, tool adapters, command runner (executeCommand);      *)
(*   - the tool routes POST /api/protected/tools/execute and               *)
(*     POST /api/protected/tools/:id/approve (registerRoutes);             *)
(*   - the tool_runs ledger (DatabaseStorage, shared schema).              *)
(*                                                                         *)
(* Strings the code inspects character by character (scan targets) are     *)
(* sequences of one-character strings; strings the code only compares or   *)
(* passes on (tool names, scan types, domains) are TLA+ strings.           *)
(***************************************************************************)
EXTENDS Integers, Sequences, FiniteSets, TLC

VARIABLES
    toolRuns,   \* the tool_runs table: id -> row, for the rows inserted so far
    reqs,       \* the HTTP requests: request number -> handler state
    calls,      \* the executeTool invocations made so far, one record each
    clock,      \* the wall clock read by new Date()
    probe,      \* the last direct call of the guard / risk assessor
    command     \* one executeCommand call: its locals, its child and its promise

vars == <<toolRuns, reqs, calls, clock, probe, command>>

----------------------------------------------------------------------------
(* Bounds of the model *)

MaxReqs == 3        \* HTTP requests issued in one behaviour
MaxRuns == 2        \* rows the tool_runs table can hold
MaxLabels == 4      \* dot-separated labels of a generated target string
MaxOutputSize == 3  \* largest maxOutputSize an executeCommand call is given, in bytes
MaxChunk == 2       \* largest chunk a data event delivers, in bytes
MaxEvents == 4      \* data events of one executeCommand call
MaxAnswering == 2   \* candidate subdomains whose lookup does not end with no record

----------------------------------------------------------------------------
(* Character strings *)

Digits == <<"0", "1", "2", "3", "4", "5", "6", "7", "8", "9">>

DigitChars == {Digits[i] : i \in 1..10}

DigitOf(c) == (CHOOSE i \in 1..10 : Digits[i] = c) - 1

\* The decimal text of a natural number.
RECURSIVE Dec(_)
Dec(n) == IF n < 10 THEN <<Digits[n + 1]>> ELSE Dec(n \div 10) \o <<Digits[(n % 10) + 1]>>

\* labels joined with "." between them
RECURSIVE JoinDots(_)
JoinDots(ls) ==
    IF Len(ls) = 0 THEN <<>>
    ELSE IF Len(ls) = 1 THEN ls[1]
    ELSE ls[1] \o <<".">> \o JoinDots(Tail(ls))

StartsWith(s, p) == Len(s) >= Len(p) /\ SubSeq(s, 1, Len(p)) = p

Str127001 == JoinDots(<<Dec(127), Dec(0), Dec(0), Dec(1)>>)

StrLocalhost == <<"l", "o", "c", "a", "l", "h", "o", "s", "t">>

StrEvil == <<"e", "v", "i", "l">>

----------------------------------------------------------------------------
(* Target policy guard *)

\* /^192\.168\./
Re192168(s) == StartsWith(s, <<"1", "9", "2", ".", "1", "6", "8", ".">>)

\* /^10\./
Re10(s) == StartsWith(s, <<"1", "0", ".">>)

\* /^172\.(1[6-9]|2[0-9]|3[01])\./
Re172(s) ==
    /\ StartsWith(s, <<"1", "7", "2", ".">>)
    /\ Len(s) >= 7
    /\ \/ s[5] = "1" /\ s[6] \in {"6", "7", "8", "9"}
       \/ s[5] = "2" /\ s[6] \in DigitChars
       \/ s[5] = "3" /\ s[6] \in {"0", "1"}
    /\ s[7] = "."

RegExpTest(re, s) ==
    CASE re = "^192\\.168\\." -> Re192168(s)
      [] re = "^10\\." -> Re10(s)
      [] re = "^172\\.(1[6-9]|2[0-9]|3[01])\\." -> Re172(s)

allowedTargets ==
    << [kind |-> "string", text |-> Str127001, re |-> ""],
       [kind |-> "string", text |-> StrLocalhost, re |-> ""],
       [kind |-> "RegExp", text |-> <<>>, re |-> "^192\\.168\\."],
       [kind |-> "RegExp", text |-> <<>>, re |-> "^10\\."],
       [kind |-> "RegExp", text |-> <<>>, re |-> "^172\\.(1[6-9]|2[0-9]|3[01])\\."] >>

\* the loop returns true at the first pattern that accepts the target
isTargetAllowed(target) ==
    \E i \in DOMAIN allowedTargets :
        LET allowedPattern == allowedTargets[i] IN
        IF allowedPattern.kind = "string"
        THEN target = allowedPattern.text
        ELSE RegExpTest(allowedPattern.re, target)

----------------------------------------------------------------------------
(* Risk assessor *)

\* assessNmapRisk with the target check made first, so that a scan type
\* overwrites it
assessNmapRiskTargetFirst(options) ==
    LET risk0 == IF ~isTargetAllowed(options.target) THEN "high" ELSE "low"
        risk1 == IF options.scanType = "syn" \/ options.scanType = "udp"
                 THEN "medium" ELSE risk0
        risk2 == IF options.scanType = "service" THEN "medium" ELSE risk1
    IN risk2

assessNmapRisk(options) ==
    LET risk0 == "low"
        risk1 == IF options.scanType = "syn" \/ options.scanType = "udp"
                 THEN "medium" ELSE risk0
        risk2 == IF options.scanType = "service" THEN "medium" ELSE risk1
        risk3 == IF ~isTargetAllowed(options.target) THEN "high" ELSE risk2
    IN risk3

\* assessRiskLevel with a default branch that returns low
assessRiskLevelDefaultLow(toolName, args) ==
    CASE toolName = "nmap" -> assessNmapRisk(args)
      [] OTHER -> "low"

assessRiskLevel(toolName, args) ==
    CASE toolName = "nmap" -> assessNmapRisk(args)
      [] toolName \in {"domain_intel", "whois", "dns_lookup"} -> "low"
      [] OTHER -> "high"

----------------------------------------------------------------------------
(* Command runner and tool adapters                                        *)
(*                                                                         *)
(* An adapter's value is [threw, error, data, spawned]: whether it threw,  *)
(* the message of what it threw, what it returned, and how many OS         *)
(* processes it spawned on the way.  cmd is what the operating system does *)
(* with a spawned command.                                                 *)

\* what becomes of a spawned command: it exits by itself, it writes more than
\* maxOutputSize, it cannot be started, or it is killed at the timeout
CmdOutcomes == {"exit0", "exitNonZero", "outputLimit", "spawnError", "timeout"}

\* the promise of executeCommand: rejected by the stdout handler or the
\* error event, resolved by the close event with exitCode = code || 0
executeCommand(cmd) ==
    CASE cmd = "outputLimit" ->
            [rejected |-> TRUE, error |-> "Output size limit exceeded", exitCode |-> 0]
      [] cmd = "spawnError" ->
            [rejected |-> TRUE, error |-> "spawn ENOENT", exitCode |-> 0]
      [] cmd = "exitNonZero" ->
            [rejected |-> FALSE, error |-> "", exitCode |-> 1]
      [] cmd = "timeout" ->       \* close with code null: null || 0
            [rejected |-> FALSE, error |-> "", exitCode |-> 0]
      [] OTHER ->
            [rejected |-> FALSE, error |-> "", exitCode |-> 0]

\* an adapter that awaits one command and parses its stdout
OneCommand(cmd, data) ==
    LET result == executeCommand(cmd) IN
    IF result.rejected
    THEN [threw |-> TRUE, error |-> result.error, data |-> "", spawned |-> 1]
    ELSE [threw |-> FALSE, error |-> "", data |-> data, spawned |-> 1]

\* the flag of the scan type: the switch has no default branch
ScanTypeFlag(scanType) ==
    CASE scanType = "ping" -> <<"-sn">>
      [] scanType = "tcp" -> <<"-sT">>
      [] scanType = "syn" -> <<"-sS">>
      [] scanType = "udp" -> <<"-sU">>
      [] scanType = "service" -> <<"-sV">>
      [] OTHER -> <<>>

\* the argument list of nmap; the target is its last element
buildNmapArgs(options) ==
    <<"-T2", "--max-rate", "100", "--max-retries", "1">>
    \o ScanTypeFlag(options.scanType)
    \o (IF options.ports # "" THEN <<"-p", options.ports>> ELSE <<"--top-ports", "100">>)
    \o <<"-oX", "-">>
    \o <<options.target>>

\* executeNmap without the target validation
executeNmapUnguarded(options, cmd) == OneCommand(cmd, "nmap scan")

executeNmap(options, cmd) ==
    IF ~isTargetAllowed(options.target)
    THEN [threw |-> TRUE,
          error |-> "Target not allowed. Only local/private networks are permitted.",
          data |-> "", spawned |-> 0]
    ELSE OneCommand(cmd, "nmap scan")

executeWhois(domain, cmd) == OneCommand(cmd, "whois record")

executeDNSLookup(domain, recordType, cmd) == OneCommand(cmd, "dns records")

commonSubdomains ==
    << "www", "mail", "ftp", "admin", "test", "dev", "staging", "api",
       "blog", "shop", "support", "portal", "secure", "vpn" >>

\* `${subdomain}.${domain}`
FullDomain(subdomain, domain) == <<subdomain, ".", domain>>

\* what dig does for one name: how the command ends and how many non-empty
\* lines it wrote to stdout
DigOutcomes ==
    {[cmd |-> "exit0", records |-> 0],
     [cmd |-> "exit0", records |-> 2],
     [cmd |-> "exitNonZero", records |-> 1],
     [cmd |-> "timeout", records |-> 0],
     [cmd |-> "spawnError", records |-> 0]}

NoAnswer == [cmd |-> "exit0", records |-> 0]

\* executeDNSLookup with the records it returns: the non-empty lines of stdout
LookupRecords(fullDomain, dig) ==
    LET result == executeDNSLookup(fullDomain, "A", dig.cmd) IN
    [threw |-> result.threw, records |-> IF result.threw THEN 0 ELSE dig.records]

\* the loop of enumerateSubdomains with the try around the whole loop: the
\* first lookup that throws ends the enumeration
RECURSIVE SubdomainLoopAborting(_, _, _)
SubdomainLoopAborting(i, domain, dns) ==
    IF i > Len(commonSubdomains)
    THEN [lookups |-> <<>>, foundSubdomains |-> <<>>]
    ELSE LET fullDomain == FullDomain(commonSubdomains[i], domain)
             result == LookupRecords(fullDomain, dns[commonSubdomains[i]])
             rest == IF result.threw
                     THEN [lookups |-> <<>>, foundSubdomains |-> <<>>]
                     ELSE SubdomainLoopAborting(i + 1, domain, dns)
         IN [lookups |-> <<[command |-> "dig", domain |-> fullDomain]>> \o rest.lookups,
             foundSubdomains |->
                 (IF ~result.threw /\ result.records > 0
                  THEN <<[subdomain |-> fullDomain, records |-> result.records]>>
                  ELSE <<>>) \o rest.foundSubdomains]

\* the loop of enumerateSubdomains from candidate i on: the commands it runs
\* and the entries it pushes; dns is what dig does for each candidate
RECURSIVE SubdomainLoop(_, _, _)
SubdomainLoop(i, domain, dns) ==
    IF i > Len(commonSubdomains)
    THEN [lookups |-> <<>>, foundSubdomains |-> <<>>]
    ELSE LET fullDomain == FullDomain(commonSubdomains[i], domain)
             result == LookupRecords(fullDomain, dns[commonSubdomains[i]])
             rest == SubdomainLoop(i + 1, domain, dns)
         IN [lookups |-> <<[command |-> "dig", domain |-> fullDomain]>> \o rest.lookups,
             foundSubdomains |->
                 (IF ~result.threw /\ result.records > 0
                  THEN <<[subdomain |-> fullDomain, records |-> result.records]>>
                  ELSE <<>>) \o rest.foundSubdomains]

Candidates == {commonSubdomains[i] : i \in DOMAIN commonSubdomains}

\* one lookup per candidate; a lookup that throws is swallowed
enumerateSubdomains(domain, cmd) ==
    [threw |-> FALSE, error |-> "", data |-> "subdomains",
     spawned |-> Len(commonSubdomains) * executeDNSLookup(domain, "A", cmd).spawned]

\* every part runs inside its own try/catch, so the adapter never throws
executeDomainIntel(options, cmd) ==
    LET dns == IF options.includeDNS THEN executeDNSLookup(options.domain, "A", cmd).spawned ELSE 0
        whois == IF options.includeWhois THEN executeWhois(options.domain, cmd).spawned ELSE 0
        subs == IF options.includeSubdomains THEN enumerateSubdomains(options.domain, cmd).spawned ELSE 0
    IN [threw |-> FALSE, error |-> "", data |-> "domain intel", spawned |-> dns + whois + subs]

\* the case labels of executeTool's switch
SupportedTools == {"nmap", "domain_intel", "whois", "dns_lookup"}

\* the switch of executeTool
Dispatch(toolName, args, cmd) ==
    CASE toolName = "nmap" -> executeNmap(args, cmd)
      [] toolName = "domain_intel" -> executeDomainIntel(args, cmd)
      [] toolName = "whois" -> executeWhois(args.domain, cmd)
      [] toolName = "dns_lookup" -> executeDNSLookup(args.domain, "A", cmd)
      [] OTHER -> [threw |-> TRUE, error |-> "Unknown tool", data |-> "", spawned |-> 0]

\* the risk level executeTool reports when the adapter returned
ReportedRisk(toolName, args) ==
    IF toolName = "nmap" THEN assessNmapRisk(args) ELSE "low"

\* executeTool with a catch block that reports the call as successful
executeToolFailOpen(toolName, args, cmd) ==
    LET r == Dispatch(toolName, args, cmd) IN
    [success |-> TRUE, data |-> r.data, error |-> "",
     riskLevel |-> ReportedRisk(toolName, args),
     auditLog |-> [command |-> toolName, arguments |-> args, result |-> r.data]]

\* the ToolResult of executeTool: the try block's value or the catch block's
executeTool(toolName, args, cmd) ==
    LET r == Dispatch(toolName, args, cmd) IN
    IF ~r.threw
    THEN [success |-> TRUE, data |-> r.data, error |-> "",
          riskLevel |-> ReportedRisk(toolName, args),
          auditLog |-> [command |-> toolName, arguments |-> args, result |-> r.data]]
    ELSE [success |-> FALSE, data |-> "", error |-> r.error,
          riskLevel |-> "high",
          auditLog |-> [command |-> toolName, arguments |-> args, result |-> r.error]]

\* the OS processes one executeTool call spawns
SpawnedBy(toolName, args, cmd) == Dispatch(toolName, args, cmd).spawned

\* the exit codes executeCommand resolved with during one executeTool call
ExitCodesOf(toolName, args, cmd) ==
    IF SpawnedBy(toolName, args, cmd) > 0 /\ ~executeCommand(cmd).rejected
    THEN {executeCommand(cmd).exitCode}
    ELSE {}

----------------------------------------------------------------------------
(* The tool_runs ledger *)

Users == {"alice", "bob"}

NoUser == ""        \* req.user is undefined

\* the sessions table: session id -> ownerId
sessions == [s \in {"s-alice"} |-> "alice"]

EmptyObject == [f \in {} |-> TRUE]      \* the JSON value {}

NoArgs ==
    [target |-> <<>>, scanType |-> "", ports |-> "", domain |-> "",
     includeDNS |-> TRUE, includeWhois |-> FALSE, includeSubdomains |-> FALSE]

\* a row as INSERT stores it: the given columns, the column defaults for the
\* rest (NULL is "" for text and 0 for a timestamp); message_id and
\* created_at, which no route reads or writes, are left out
NewRow(id, insert) ==
    [id |-> id,
     sessionId |-> insert.sessionId,
     toolName |-> insert.toolName,
     arguments |-> insert.arguments,
     result |-> EmptyObject,
     status |-> insert.status,
     riskLevel |-> insert.riskLevel,
     approvalRequired |-> insert.approvalRequired,
     approvedBy |-> NoUser,
     approvedAt |-> 0,
     executedAt |-> 0,
     completedAt |-> 0,
     errorMessage |-> "",
     auditLog |-> EmptyObject]

\* the row getToolRun gives for an id that is not in the table
NoRow ==
    NewRow(0, [sessionId |-> "", toolName |-> "", arguments |-> NoArgs, status |-> "",
               riskLevel |-> "", approvalRequired |-> FALSE])

\* INSERT ... RETURNING: the table with the new row
createToolRun(table, id, insert) ==
    [i \in DOMAIN table \cup {id} |-> IF i = id THEN NewRow(id, insert) ELSE table[i]]

\* getToolRun giving an empty row, not undefined, for an id that is not in the table
getToolRunOrEmptyRow(table, id) ==
    IF id \in DOMAIN table THEN table[id] ELSE [NoRow EXCEPT !.id = id]

getToolRun(table, id) == IF id \in DOMAIN table THEN table[id] ELSE NoRow

\* UPDATE tool_runs SET updates WHERE id = id: the columns named in updates
\* are overwritten whatever the row holds
updateToolRun(table, id, updates) ==
    [i \in DOMAIN table |->
        IF i = id
        THEN [f \in DOMAIN table[i] |->
                 IF f \in DOMAIN updates THEN updates[f] ELSE table[i][f]]
        ELSE table[i]]

getPendingToolRuns(table, userId) ==
    {i \in DOMAIN table :
        /\ sessions[table[i].sessionId] = userId
        /\ table[i].status = "pending"
        /\ table[i].approvalRequired}

----------------------------------------------------------------------------
(* Inputs *)

LabelNumbers == {0, 1, 8, 10, 16, 32, 127, 168, 172, 192}

Labels == {Dec(n) : n \in LabelNumbers} \cup {StrLocalhost, StrEvil}

\* every target string of up to MaxLabels labels
Targets == {JoinDots(ls) : ls \in UNION {[1..k -> Labels] : k \in 1..MaxLabels}}

Ip(a, b, c, d) == JoinDots(<<Dec(a), Dec(b), Dec(c), Dec(d)>>)

TargetSamples ==
    {Ip(8, 8, 8, 8), Ip(10, 0, 0, 1), Ip(192, 168, 1, 10), Ip(172, 16, 0, 1),
     Ip(172, 32, 0, 1), Str127001, StrLocalhost, JoinDots(<<Dec(10), StrEvil>>)}

ScanTypes == {"ping", "tcp", "udp", "syn", "service", ""}

ToolNames == {"nmap", "domain_intel", "whois", "dns_lookup", "sqlmap"}

\* what dig does for every candidate: for at most MaxAnswering of them
\* something other than ending with no record
DnsWorlds ==
    UNION {{[c \in Candidates |-> IF c \in A THEN g[c] ELSE NoAnswer] :
               g \in [A -> DigOutcomes \ {NoAnswer}]} :
              A \in {B \in SUBSET Candidates : Cardinality(B) <= MaxAnswering}}

\* values of NmapScanOptions.ports: absent, one port, a list, ranges, every port
PortSpecs == {"", "80", "22,80,443", "1-1024", "1-65535", "-"}

NmapArgs(target, scanType) == [NoArgs EXCEPT !.target = target, !.scanType = scanType]

DomainArgs(domain, subdomains) ==
    [NoArgs EXCEPT !.domain = domain, !.includeSubdomains = subdomains]

\* the tool invocations the routes are driven with
ToolInvocations ==
    {[toolName |-> "nmap", arguments |-> NmapArgs(Ip(192, 168, 1, 10), "ping")],
     [toolName |-> "nmap", arguments |-> NmapArgs(Ip(10, 0, 0, 1), "syn")],
     [toolName |-> "nmap", arguments |-> NmapArgs(Ip(8, 8, 8, 8), "ping")],
     [toolName |-> "domain_intel", arguments |-> DomainArgs("example.com", TRUE)],
     [toolName |-> "sqlmap", arguments |-> NoArgs]}

\* the bodies toolExecutionSchema accepts (an absent requiresApproval acts as false)
ExecuteBodies ==
    {[toolName |-> inv.toolName, arguments |-> inv.arguments,
      sessionId |-> sid, requiresApproval |-> ra] :
        inv \in ToolInvocations, sid \in DOMAIN sessions, ra \in BOOLEAN}

NoBody == [toolName |-> "", arguments |-> NoArgs, sessionId |-> "", requiresApproval |-> FALSE]

----------------------------------------------------------------------------
(* The tool routes.  Each action is the part of a handler between two      *)
(* awaits: requests interleave at the awaits and nowhere else.             *)

IdleReq ==
    [kind |-> "none", pc |-> "idle", user |-> NoUser, data |-> NoBody,
     toolRunId |-> 0, toolRun |-> NoRow, result |-> EmptyObject, response |-> 0]

\* a handler that has responded: its locals are gone, what is kept is who
\* asked for what and the response
Responded(req, code) ==
    [IdleReq EXCEPT !.kind = req.kind, !.user = req.user, !.toolRunId = req.toolRunId,
                    !.pc = "done", !.response = code]

\* requests are numbered in the order they arrive
Arrives(p) ==
    /\ reqs[p].pc = "idle"
    /\ \A q \in 1..(p - 1) : reqs[q].pc # "idle"

InsertedStatus(data) == IF data.requiresApproval THEN "pending" ELSE "running"

\* the execute route running the tool whatever the approval flag
ExecutesNowAlways(data) == TRUE

ExecutesNow(data) == ~data.requiresApproval

ExecuteInsert(data) ==
    [sessionId |-> data.sessionId,
     toolName |-> data.toolName,
     arguments |-> data.arguments,
     status |-> InsertedStatus(data),
     approvalRequired |-> data.requiresApproval,
     riskLevel |-> assessRiskLevel(data.toolName, data.arguments)]

\* the execute route's update also copying the outcome's error into errorMessage
ExecuteUpdatesWithErrorMessage(result, now) ==
    [status |-> "completed", result |-> result, executedAt |-> now, completedAt |-> now,
     errorMessage |-> result.error]

ExecuteUpdates(result, now) ==
    [status |-> "completed", result |-> result, executedAt |-> now, completedAt |-> now]

\* the approve route's update also storing the risk level the outcome reports
ApproveUpdatesRecomputingRisk(result, userId, now) ==
    [status |-> "completed", result |-> result, approvedBy |-> userId,
     approvedAt |-> now, executedAt |-> now, completedAt |-> now,
     riskLevel |-> result.riskLevel]

ApproveUpdates(result, userId, now) ==
    [status |-> "completed", result |-> result, approvedBy |-> userId,
     approvedAt |-> now, executedAt |-> now, completedAt |-> now]

\* one executeTool invocation, as the log keeps it
Call(p, toolName, args, cmd) ==
    [req |-> p, kind |-> reqs[p].kind, user |-> reqs[p].user,
     runId |-> reqs[p].toolRunId, seenStatus |-> reqs[p].toolRun.status,
     toolName |-> toolName, arguments |-> args,
     spawned |-> SpawnedBy(toolName, args, cmd),
     exitCodes |-> ExitCodesOf(toolName, args, cmd),
     success |-> executeTool(toolName, args, cmd).success]

\* POST /api/protected/tools/execute without req.user
ExecuteUnauthenticated(p) ==
    /\ Arrives(p)
    /\ reqs' = [reqs EXCEPT ![p] = Responded([IdleReq EXCEPT !.kind = "execute"], 401)]
    /\ UNCHANGED <<toolRuns, calls, clock, probe, command>>

\* POST /api/protected/tools/execute up to the end of createToolRun, and the
\* response when approval is required; the handler reads the id of req.user
\* and never uses it
ExecuteCreate(p, user, data) ==
    /\ Arrives(p)
    /\ user # NoUser
    /\ Cardinality(DOMAIN toolRuns) < MaxRuns
    /\ LET id == Cardinality(DOMAIN toolRuns) + 1
           table == createToolRun(toolRuns, id, ExecuteInsert(data))
       IN /\ toolRuns' = table
          /\ reqs' = [reqs EXCEPT ![p] =
                IF ExecutesNow(data)
                THEN [IdleReq EXCEPT !.kind = "execute", !.data = data,
                         !.toolRunId = id, !.toolRun = table[id], !.pc = "tool"]
                ELSE Responded([IdleReq EXCEPT !.kind = "execute", !.toolRunId = id], 200)]
    /\ UNCHANGED <<calls, clock, probe, command>>

\* await toolsService.executeTool(data.toolName, data.arguments)
ExecuteRunTool(p, cmd) ==
    /\ reqs[p].kind = "execute"
    /\ reqs[p].pc = "tool"
    /\ LET data == reqs[p].data IN
          /\ reqs' = [reqs EXCEPT ![p].result = executeTool(data.toolName, data.arguments, cmd),
                                  ![p].pc = "update"]
          /\ calls' = calls \cup {Call(p, data.toolName, data.arguments, cmd)}
    /\ UNCHANGED <<toolRuns, clock, probe, command>>

\* await storage.updateToolRun(toolRun.id, ...) and the response
ExecuteFinish(p) ==
    /\ reqs[p].kind = "execute"
    /\ reqs[p].pc = "update"
    /\ toolRuns' = updateToolRun(toolRuns, reqs[p].toolRun.id, ExecuteUpdates(reqs[p].result, clock))
    /\ reqs' = [reqs EXCEPT ![p] = Responded(reqs[p], 200)]
    /\ clock' = clock + 1
    /\ UNCHANGED <<calls, probe, command>>

\* POST /api/protected/tools/:id/approve without req.user
ApproveUnauthenticated(p, id) ==
    /\ Arrives(p)
    /\ reqs' = [reqs EXCEPT ![p] =
            Responded([IdleReq EXCEPT !.kind = "approve", !.toolRunId = id], 401)]
    /\ UNCHANGED <<toolRuns, calls, clock, probe, command>>

\* POST /api/protected/tools/:id/approve up to the end of getToolRun
ApproveGet(p, user, id) ==
    /\ Arrives(p)
    /\ user # NoUser
    /\ LET toolRun == getToolRun(toolRuns, id) IN
          reqs' = [reqs EXCEPT ![p] =
                IF toolRun = NoRow
                THEN Responded([IdleReq EXCEPT !.kind = "approve", !.user = user,
                                   !.toolRunId = id], 404)
                ELSE [IdleReq EXCEPT !.kind = "approve", !.user = user, !.toolRunId = id,
                         !.toolRun = toolRun, !.pc = "tool"]]
    /\ UNCHANGED <<toolRuns, calls, clock, probe, command>>

\* the approve route taking the tool name and the arguments from the request
\* body, not from the row it read
ApproveRunToolFromBody(p, cmd) ==
    /\ reqs[p].kind = "approve"
    /\ reqs[p].pc = "tool"
    /\ LET data == reqs[p].data IN
          /\ reqs' = [reqs EXCEPT ![p].result = executeTool(data.toolName, data.arguments, cmd),
                                  ![p].pc = "update"]
          /\ calls' = calls \cup {Call(p, data.toolName, data.arguments, cmd)}
    /\ UNCHANGED <<toolRuns, clock, probe, command>>

\* await toolsService.executeTool(toolRun.toolName, toolRun.arguments)
ApproveRunTool(p, cmd) ==
    /\ reqs[p].kind = "approve"
    /\ reqs[p].pc = "tool"
    /\ LET toolRun == reqs[p].toolRun IN
          /\ reqs' = [reqs EXCEPT ![p].result = executeTool(toolRun.toolName, toolRun.arguments, cmd),
                                  ![p].pc = "update"]
          /\ calls' = calls \cup {Call(p, toolRun.toolName, toolRun.arguments, cmd)}
    /\ UNCHANGED <<toolRuns, clock, probe, command>>

\* await storage.updateToolRun(toolRunId, ...) and the response
ApproveFinish(p) ==
    /\ reqs[p].kind = "approve"
    /\ reqs[p].pc = "update"
    /\ toolRuns' = updateToolRun(toolRuns, reqs[p].toolRunId,
                                 ApproveUpdates(reqs[p].result, reqs[p].user, clock))
    /\ reqs' = [reqs EXCEPT ![p] = Responded(reqs[p], 200)]
    /\ clock' = clock + 1
    /\ UNCHANGED <<calls, probe, command>>

----------------------------------------------------------------------------
(* Agent service: intent classifier                                        *)
(*                                                                         *)
(* A JSON value is [kind, str, num]; a number is kept in hundredths.  A    *)
(* completion is a failure of the service, a text JSON.parse rejects, or   *)
(* a text that parses to a value of JSON type top; type, confidence and    *)
(* entities are the properties read from that value.                       *)

JVal(kind, str, num) == [kind |-> kind, str |-> str, num |-> num]

Undefined == JVal("undefined", "", 0)

JNull == JVal("null", "", 0)

JString(s) == JVal("string", s, 0)

JNumber(n) == JVal("number", "", n)

\* an object, told apart by a tag; JObject("") is {}
JObject(tag) == JVal("object", tag, 0)

\* ToBoolean
Truthy(v) ==
    CASE v.kind \in {"undefined", "null"} -> FALSE
      [] v.kind = "string" -> v.str # ""
      [] v.kind = "number" -> v.num # 0
      [] OTHER -> TRUE

\* a || b
OrElse(a, b) == IF Truthy(a) THEN a ELSE b

\* reading a property of null or undefined throws a TypeError
ReadThrows(response) == response.top \in {"null", "undefined"}

IntentTypes == {"rag_query", "tool_execution", "planning", "casual_chat"}

\* the value of the catch block
IntentFallback ==
    [threw |-> FALSE, type |-> JString("casual_chat"), confidence |-> JNumber(50),
     entities |-> JObject("")]

\* analyzeIntent with no try around the completion call and JSON.parse
analyzeIntentUncaught(response) ==
    IF response.kind # "json" \/ ReadThrows(response)
    THEN [IntentFallback EXCEPT !.threw = TRUE]
    ELSE [threw |-> FALSE,
          type |-> OrElse(response.type, JString("casual_chat")),
          confidence |-> OrElse(response.confidence, JNumber(50)),
          entities |-> OrElse(response.entities, JObject(""))]

analyzeIntent(response) ==
    IF response.kind # "json" \/ ReadThrows(response)
    THEN IntentFallback
    ELSE [threw |-> FALSE,
          type |-> OrElse(response.type, JString("casual_chat")),
          confidence |-> OrElse(response.confidence, JNumber(50)),
          entities |-> OrElse(response.entities, JObject(""))]

\* completions of the classifier prompt
IntentCompletion(kind, top, type, confidence, entities) ==
    [kind |-> kind, top |-> top, type |-> type, confidence |-> confidence,
     entities |-> entities]

IntentResponses ==
    {IntentCompletion(kind, "undefined", Undefined, Undefined, Undefined) :
        kind \in {"failure", "invalid"}}
    \cup {IntentCompletion("json", top, Undefined, Undefined, Undefined) :
            top \in {"null", "string", "number", "array"}}
    \cup {IntentCompletion("json", "object", type, confidence, entities) :
            type \in {Undefined, JNull, JString(""), JNumber(7), JString("exploit")}
                        \cup {JString(t) : t \in IntentTypes},
            confidence \in {Undefined, JNumber(0), JNumber(95), JString("high")},
            entities \in {Undefined, JNull, JObject(""), JObject("nmap 8.8.8.8")}}

----------------------------------------------------------------------------
(* Agent service: plan builder                                             *)
(*                                                                         *)
(* The steps property of a completion is [kind, items]; an element of the  *)
(* array is [kind, id, description, status].                               *)

StepsVal(kind, items) == [kind |-> kind, items |-> items]

StepElement(kind, id, description, status) ==
    [kind |-> kind, id |-> id, description |-> description, status |-> status]

\* {...step, status: "pending"}: spreading null adds no property
MapStep(step) ==
    [id |-> IF step.kind = "object" THEN step.id ELSE Undefined,
     description |-> IF step.kind = "object" THEN step.description ELSE Undefined,
     status |-> JString("pending")]

\* the value of the catch block
PlanFallback ==
    [threw |-> FALSE, goal |-> JString("Unable to generate plan"), steps |-> <<>>,
     currentStep |-> 0, status |-> "failed", riskAssessment |-> JString("high")]

\* parsed.steps.map throws unless steps is an array
generateAgentPlan(response) ==
    IF response.kind # "json" \/ ReadThrows(response) \/ response.steps.kind # "array"
    THEN PlanFallback
    ELSE [threw |-> FALSE,
          goal |-> response.goal,
          steps |-> [i \in DOMAIN response.steps.items |-> MapStep(response.steps.items[i])],
          currentStep |-> 0,
          status |-> "planning",
          riskAssessment |-> OrElse(response.riskAssessment, JString("medium"))]

\* completions of the planning prompt
PlanCompletion(kind, top, goal, steps, riskAssessment) ==
    [kind |-> kind, top |-> top, goal |-> goal, steps |-> steps,
     riskAssessment |-> riskAssessment]

GoodStep == StepElement("object", JString("step_1"), JString("Scan the host"), Undefined)

StepsValues ==
    {StepsVal("undefined", <<>>), StepsVal("string", <<>>), StepsVal("array", <<>>),
     StepsVal("array", <<GoodStep>>),
     StepsVal("array", <<GoodStep, StepElement("object", Undefined, JString("Report"), Undefined)>>),
     StepsVal("array", <<StepElement("null", Undefined, Undefined, Undefined)>>),
     StepsVal("array", <<[GoodStep EXCEPT !.status = JString("completed")]>>)}

PlanResponses ==
    {PlanCompletion(kind, "undefined", Undefined, StepsVal("undefined", <<>>), Undefined) :
        kind \in {"failure", "invalid"}}
    \cup {PlanCompletion("json", top, Undefined, StepsVal("undefined", <<>>), Undefined) :
            top \in {"null", "string", "number", "array"}}
    \cup {PlanCompletion("json", "object", goal, steps, riskAssessment) :
            goal \in {Undefined, JNumber(7), JString("Assess the host")},
            steps \in StepsValues,
            riskAssessment \in {Undefined, JString("low")}}

----------------------------------------------------------------------------
(* Agent service: processMessage                                           *)
(*                                                                         *)
(* A message is what the handlers read off its text: the words            *)
(* message.includes is asked about, the IPv4 literals and the domain names *)
(* the regular expressions match, in order, and the port list after        *)
(* "port(s)" ("" when there is none).                                      *)

Message(words, ips, domains, ports) ==
    [words |-> words, ips |-> ips, domains |-> domains, ports |-> ports]

Includes(message, word) == word \in message.words

extractTargets(message) ==
    IF Includes(message, "localhost")
       /\ \A i \in DOMAIN message.ips : message.ips[i] # Str127001
    THEN Append(message.ips, Str127001)
    ELSE message.ips

extractDomains(message) == message.domains

extractPorts(message) == message.ports

determineScanType(message) ==
    CASE Includes(message, "service") \/ Includes(message, "version") -> "service"
      [] Includes(message, "syn") -> "syn"
      [] Includes(message, "udp") -> "udp"
      [] Includes(message, "ping") -> "ping"
      [] OTHER -> "tcp"

\* entities.tools and entities.targets of the entities objects of the model
EntityTools(entities) == IF entities = JObject("nmap 8.8.8.8") THEN {"nmap"} ELSE {}

EntityTargets(entities) ==
    IF entities = JObject("nmap 8.8.8.8") THEN <<Ip(8, 8, 8, 8)>> ELSE <<>>

extractToolCalls(message, entities) ==
    LET targets == IF EntityTargets(entities) # <<>>
                   THEN EntityTargets(entities) ELSE extractTargets(message)
        domains == extractDomains(message)
        nmap == IF /\ \/ Includes(message, "nmap")
                      \/ Includes(message, "scan")
                      \/ "nmap" \in EntityTools(entities)
                   /\ Len(targets) > 0
                THEN <<[toolName |-> "nmap",
                        arguments |-> [NoArgs EXCEPT !.target = targets[1],
                                             !.scanType = determineScanType(message),
                                             !.ports = extractPorts(message)]]>>
                ELSE <<>>
        domainIntel ==
                IF /\ \/ Includes(message, "domain")
                      \/ Includes(message, "whois")
                      \/ "domain_intel" \in EntityTools(entities)
                   /\ Len(domains) > 0
                THEN <<[toolName |-> "domain_intel",
                        arguments |-> [NoArgs EXCEPT !.domain = domains[1],
                                             !.includeWhois = Includes(message, "whois"),
                                             !.includeDNS = TRUE,
                                             !.includeSubdomains = Includes(message, "subdomain")]]>>
                ELSE <<>>
    IN nmap \o domainIntel

\* a tool call marked executed when the assessor finds it low risk
ProcessToolCallRunningLowRisk(call) ==
    [toolName |-> call.toolName, arguments |-> call.arguments,
     riskLevel |-> assessRiskLevel(call.toolName, call.arguments),
     status |-> IF assessRiskLevel(call.toolName, call.arguments) = "low"
                THEN "executed" ELSE "pending"]

\* {...call, riskLevel: assessRiskLevel(...), status: "pending"}
ProcessToolCall(call) ==
    [toolName |-> call.toolName, arguments |-> call.arguments,
     riskLevel |-> assessRiskLevel(call.toolName, call.arguments),
     status |-> "pending"]

\* the AgentResponse: which handler made it and its toolCalls
handleToolExecution(message, entities) ==
    LET toolCalls == extractToolCalls(message, entities) IN
    [handler |-> "tool_execution",
     toolCalls |-> [i \in DOMAIN toolCalls |-> ProcessToolCall(toolCalls[i])]]

\* the switch on intent.type; the other handlers return no toolCalls
processMessage(message, response) ==
    LET intent == analyzeIntent(response) IN
    CASE intent.type = JString("tool_execution") ->
            handleToolExecution(message, intent.entities)
      [] intent.type = JString("rag_query") -> [handler |-> "rag_query", toolCalls |-> <<>>]
      [] intent.type = JString("planning") -> [handler |-> "planning", toolCalls |-> <<>>]
      [] OTHER -> [handler |-> "casual_chat", toolCalls |-> <<>>]

Messages ==
    {Message({"scan"}, <<Ip(192, 168, 1, 10)>>, <<>>, ""),
     Message({"nmap", "syn"}, <<Ip(8, 8, 8, 8)>>, <<>>, "1-65535"),
     Message({"scan", "localhost", "service"}, <<>>, <<>>, "80"),
     Message({"scan", "domain"}, <<Ip(10, 0, 0, 1)>>, <<"example.com">>, ""),
     Message({"whois", "domain", "subdomain"}, <<>>, <<"example.com">>, ""),
     Message({"hello"}, <<>>, <<>>, "")}

----------------------------------------------------------------------------
(* Direct calls of the guard and the risk assessor *)

NoProbe ==
    [op |-> "none", toolName |-> "", arguments |-> NoArgs, allowed |-> FALSE, risk |-> "",
     args |-> <<>>, dns |-> <<>>, message |-> <<>>, response |-> <<>>, output |-> <<>>,
     enumeration |-> [lookups |-> <<>>, foundSubdomains |-> <<>>]]

CheckTarget(t) ==
    /\ probe = NoProbe
    /\ probe' = [NoProbe EXCEPT !.op = "isTargetAllowed", !.arguments = NmapArgs(t, ""),
                                !.allowed = isTargetAllowed(t)]
    /\ UNCHANGED <<toolRuns, reqs, calls, clock, command>>

AssessRisk(toolName, args) ==
    /\ probe = NoProbe
    /\ probe' = [NoProbe EXCEPT !.op = "assessRiskLevel", !.toolName = toolName,
                                !.arguments = args,
                                !.allowed = isTargetAllowed(args.target),
                                !.risk = assessRiskLevel(toolName, args)]
    /\ UNCHANGED <<toolRuns, reqs, calls, clock, command>>

BuildArgs(options) ==
    /\ probe = NoProbe
    /\ probe' = [NoProbe EXCEPT !.op = "buildNmapArgs", !.arguments = options,
                                !.args = buildNmapArgs(options)]
    /\ UNCHANGED <<toolRuns, reqs, calls, clock, command>>

EnumerateSubdomains(domain, dns) ==
    /\ probe = NoProbe
    /\ probe' = [NoProbe EXCEPT !.op = "enumerateSubdomains",
                                !.arguments = DomainArgs(domain, TRUE),
                                !.dns = dns,
                                !.enumeration = SubdomainLoop(1, domain, dns)]
    /\ UNCHANGED <<toolRuns, reqs, calls, clock, command>>

AnalyzeIntent(response) ==
    /\ probe = NoProbe
    /\ probe' = [NoProbe EXCEPT !.op = "analyzeIntent", !.response = response,
                                !.output = analyzeIntent(response)]
    /\ UNCHANGED <<toolRuns, reqs, calls, clock, command>>

GenerateAgentPlan(response) ==
    /\ probe = NoProbe
    /\ probe' = [NoProbe EXCEPT !.op = "generateAgentPlan", !.response = response,
                                !.output = generateAgentPlan(response)]
    /\ UNCHANGED <<toolRuns, reqs, calls, clock, command>>

\* processMessage calls neither executeTool nor createToolRun nor
\* updateToolRun: the ledger and the call log stay as they are
ProcessMessage(message, response) ==
    /\ probe = NoProbe
    /\ probe' = [NoProbe EXCEPT !.op = "processMessage", !.message = message,
                                !.response = response,
                                !.output = processMessage(message, response)]
    /\ UNCHANGED <<toolRuns, reqs, calls, clock, command>>

----------------------------------------------------------------------------
(* One executeCommand call, event by event.  Sizes are byte counts; the    *)
(* promise settles once, later resolve and reject calls do nothing.        *)

NullCode == -1      \* the code of the close event of a child a signal ended

IdleCommand ==
    [pc |-> "idle", maxSize |-> 0, stdout |-> 0, stderr |-> 0, outputSize |-> 0,
     events |-> 0, child |-> "none", killed |-> FALSE, timedOut |-> FALSE,
     code |-> NullCode, promise |-> "pending", error |-> "", exitCode |-> 0]

\* resolve(value) and reject(error) of a promise
Resolve(c, exitCode) ==
    IF c.promise = "pending" THEN [c EXCEPT !.promise = "resolved", !.exitCode = exitCode] ELSE c

Reject(c, error) ==
    IF c.promise = "pending" THEN [c EXCEPT !.promise = "rejected", !.error = error] ELSE c

\* code || 0
OrZero(code) == IF code = NullCode \/ code = 0 THEN 0 ELSE code

\* the size test of the stdout handler made on the count before the chunk
OverLimitBeforeAdding(outputSize, length, maxSize) == outputSize > maxSize

\* outputSize += data.length; if (outputSize > maxSize)
OverLimit(outputSize, length, maxSize) == outputSize + length > maxSize

\* spawn(command, args, {stdio, timeout}) starts the child
Spawn(maxSize) ==
    /\ command.pc = "idle"
    /\ command' = [command EXCEPT !.pc = "spawned", !.maxSize = maxSize, !.child = "alive"]
    /\ UNCHANGED <<toolRuns, reqs, calls, clock, probe>>

\* the command cannot be started: child.on("error") rejects
SpawnError ==
    /\ command.pc = "idle"
    /\ command' = Reject([command EXCEPT !.pc = "closed"], "spawn ENOENT")
    /\ UNCHANGED <<toolRuns, reqs, calls, clock, probe>>

\* child.stdout.on("data"): chunks keep coming until the stream has closed,
\* whether or not the promise has settled
StdoutData(length) ==
    /\ command.pc = "spawned"
    /\ command.events < MaxEvents
    /\ LET counted == [command EXCEPT !.outputSize = @ + length, !.events = @ + 1] IN
       command' =
          IF OverLimit(command.outputSize, length, command.maxSize)
          THEN Reject([counted EXCEPT !.killed = TRUE], "Output size limit exceeded")
          ELSE [counted EXCEPT !.stdout = @ + length]
    /\ UNCHANGED <<toolRuns, reqs, calls, clock, probe>>

\* child.stderr.on("data")
StderrData(length) ==
    /\ command.pc = "spawned"
    /\ command.events < MaxEvents
    /\ command' = [command EXCEPT !.stderr = @ + length, !.events = @ + 1]
    /\ UNCHANGED <<toolRuns, reqs, calls, clock, probe>>

\* the timeout given to spawn expires with the child running: SIGTERM is sent
TimeoutExpires ==
    /\ command.pc = "spawned"
    /\ command.child = "alive"
    /\ ~command.timedOut
    /\ command' = [command EXCEPT !.timedOut = TRUE]
    /\ UNCHANGED <<toolRuns, reqs, calls, clock, probe>>

\* the child exits by itself
ChildExits(code) ==
    /\ command.child = "alive"
    /\ command' = [command EXCEPT !.child = "exited", !.code = code]
    /\ UNCHANGED <<toolRuns, reqs, calls, clock, probe>>

\* a SIGTERM sent by child.kill() or by the timeout ends the child
ChildTerminated ==
    /\ command.child = "alive"
    /\ command.killed \/ command.timedOut
    /\ command' = [command EXCEPT !.child = "exited", !.code = NullCode]
    /\ UNCHANGED <<toolRuns, reqs, calls, clock, probe>>

\* child.on("close"): the child has ended and its streams have closed
Close ==
    /\ command.pc = "spawned"
    /\ command.child = "exited"
    /\ command' = Resolve([command EXCEPT !.pc = "closed"], OrZero(command.code))
    /\ UNCHANGED <<toolRuns, reqs, calls, clock, probe>>

----------------------------------------------------------------------------
(* Specifications *)

Init ==
    /\ toolRuns = [i \in {} |-> NoRow]
    /\ reqs = [p \in 1..MaxReqs |-> IdleReq]
    /\ calls = {}
    /\ clock = 1
    /\ probe = NoProbe
    /\ command = IdleCommand

Next ==
    \/ \E p \in 1..MaxReqs : ExecuteUnauthenticated(p)
    \/ \E p \in 1..MaxReqs, user \in Users, data \in ExecuteBodies : ExecuteCreate(p, user, data)
    \/ \E p \in 1..MaxReqs, cmd \in CmdOutcomes : ExecuteRunTool(p, cmd)
    \/ \E p \in 1..MaxReqs : ExecuteFinish(p)
    \/ \E p \in 1..MaxReqs, id \in 1..MaxRuns : ApproveUnauthenticated(p, id)
    \/ \E p \in 1..MaxReqs, user \in Users, id \in 1..MaxRuns : ApproveGet(p, user, id)
    \/ \E p \in 1..MaxReqs, cmd \in CmdOutcomes : ApproveRunTool(p, cmd)
    \/ \E p \in 1..MaxReqs : ApproveFinish(p)

Spec == Init /\ [][Next]_vars

\* the event loop runs the continuation of every await whose promise has
\* settled: a spawned command closes or fails (the spawn timeout bounds it),
\* the UPDATE returns
Fairness ==
    \A p \in 1..MaxReqs :
        /\ WF_vars(\E cmd \in CmdOutcomes : ExecuteRunTool(p, cmd))
        /\ WF_vars(ExecuteFinish(p))
        /\ WF_vars(\E cmd \in CmdOutcomes : ApproveRunTool(p, cmd))
        /\ WF_vars(ApproveFinish(p))

SpecLive == Spec /\ Fairness

\* one executeCommand call and what the operating system does with its child
NextCommand ==
    \/ \E maxSize \in 1..MaxOutputSize : Spawn(maxSize)
    \/ SpawnError
    \/ \E length \in 1..MaxChunk : StdoutData(length)
    \/ \E length \in 1..MaxChunk : StderrData(length)
    \/ TimeoutExpires
    \/ \E code \in {0, 1} : ChildExits(code)
    \/ ChildTerminated
    \/ Close

SpecCommand == Init /\ [][NextCommand]_vars

\* the guard and the risk assessor called on their own
NextGuard ==
    \/ probe = NoProbe /\ \E t \in Targets : CheckTarget(t)
    \/ probe = NoProbe /\ \E toolName \in ToolNames, t \in TargetSamples, st \in ScanTypes :
          AssessRisk(toolName, [NmapArgs(t, st) EXCEPT !.domain = "example.com"])
    \/ probe = NoProbe /\ \E t \in TargetSamples, st \in ScanTypes, ports \in PortSpecs :
          BuildArgs([NmapArgs(t, st) EXCEPT !.ports = ports])
    \/ probe = NoProbe /\ \E dns \in DnsWorlds : EnumerateSubdomains("example.com", dns)
    \/ probe = NoProbe /\ \E response \in IntentResponses : AnalyzeIntent(response)
    \/ probe = NoProbe /\ \E response \in PlanResponses : GenerateAgentPlan(response)
    \/ probe = NoProbe /\ \E message \in Messages, response \in IntentResponses :
          ProcessMessage(message, response)

SpecGuard == Init /\ [][NextGuard]_vars

----------------------------------------------------------------------------
(* Vocabulary of the properties *)

Runs == DOMAIN toolRuns

CallsOf(r) == {c \in calls : c.runId = r}

\* an approve request for run r that came with an authenticated user
ApprovalActionFor(r) ==
    \E p \in 1..MaxReqs :
        /\ reqs[p].kind = "approve"
        /\ reqs[p].toolRunId = r
        /\ reqs[p].user # NoUser

PolicyViolation(toolName, args) ==
    \/ toolName = "nmap" /\ ~isTargetAllowed(args.target)
    \/ toolName \notin SupportedTools

\* the dot-separated labels of a string
RECURSIVE SplitDots(_)
SplitDots(s) ==
    IF \A i \in 1..Len(s) : s[i] # "."
    THEN <<s>>
    ELSE LET k == CHOOSE i \in 1..Len(s) : s[i] = "." /\ \A j \in 1..(i - 1) : s[j] # "."
         IN <<SubSeq(s, 1, k - 1)>> \o SplitDots(SubSeq(s, k + 1, Len(s)))

IsDecimal(l) == Len(l) \in 1..3 /\ \A i \in 1..Len(l) : l[i] \in DigitChars

RECURSIVE ValueOf(_)
ValueOf(l) ==
    IF Len(l) = 0 THEN 0 ELSE 10 * ValueOf(SubSeq(l, 1, Len(l) - 1)) + DigitOf(l[Len(l)])

\* an IPv4 literal as the resolver reads it: one to four decimal parts, the
\* leading parts one byte each and the last part filling the bytes that remain
\* (a.b.c.d, and the short forms a.b.c, a.b and a)
IsIPv4Literal(t) ==
    LET ls == SplitDots(t) IN
    /\ Len(ls) \in 1..4
    /\ \A i \in 1..Len(ls) : IsDecimal(ls[i])
    /\ \A i \in 1..(Len(ls) - 1) : ValueOf(ls[i]) <= 255
    /\ Len(ls) = 4 => ValueOf(ls[4]) <= 255

\* the first and the second byte of the address an IPv4 literal denotes
FirstByte(t) ==
    LET ls == SplitDots(t) IN
    IF Len(ls) = 1 THEN ValueOf(ls[1]) \div 16777216 ELSE ValueOf(ls[1])

SecondByte(t) ==
    LET ls == SplitDots(t) IN
    CASE Len(ls) = 1 -> (ValueOf(ls[1]) \div 65536) % 256
      [] Len(ls) = 2 -> ValueOf(ls[2]) \div 65536
      [] OTHER -> ValueOf(ls[2])

\* an IPv4 address inside 10.0.0.0/8, 172.16.0.0/12 or 192.168.0.0/16
InPrivateRange(t) ==
    /\ IsIPv4Literal(t)
    /\ \/ FirstByte(t) = 10
       \/ FirstByte(t) = 172 /\ SecondByte(t) \in 16..31
       \/ FirstByte(t) = 192 /\ SecondByte(t) = 168

----------------------------------------------------------------------------
(* Properties *)

\* C1: a run created with approvalRequired = true is executed only by approve
\* requests for that run that carry an approver identity, and until such a
\* request has been made the run is pending and its tool has not been invoked.
C1_PendingUntilApproved ==
    \A r \in Runs :
        toolRuns[r].approvalRequired =>
            /\ \A c \in CallsOf(r) : c.kind = "approve" /\ c.user # NoUser
            /\ ~ApprovalActionFor(r) => toolRuns[r].status = "pending" /\ CallsOf(r) = {}

\* C1 witness: an approval-gated run that an approver's request has executed
C1_Witness ==
    \E r \in Runs :
        /\ toolRuns[r].approvalRequired
        /\ toolRuns[r].status = "completed"
        /\ toolRuns[r].approvedBy # NoUser
        /\ \E c \in CallsOf(r) : c.kind = "approve"

\* C2: approvalRequired is true whenever the risk tier is not low, so only
\* low-risk runs without an approval flag are executed by the execute route.
C2_RiskWarrantsApproval ==
    \A r \in Runs :
        /\ toolRuns[r].riskLevel # "low" => toolRuns[r].approvalRequired
        /\ \A c \in CallsOf(r) : c.kind = "execute" => toolRuns[r].riskLevel = "low"

\* C3: an approve request that found its run in a status other than pending
\* executes nothing, leaves the ledger as it is and answers with a conflict.
C3_ApproveNonPendingConflicts ==
    [][\A p \in 1..MaxReqs :
          (/\ reqs[p].kind = "approve"
           /\ reqs[p].pc = "tool"
           /\ reqs[p].toolRun.status # "pending"
           /\ reqs'[p] # reqs[p])
          => /\ calls' = calls
             /\ toolRuns' = toolRuns
             /\ reqs'[p].response = 409]_vars

\* C4: under every interleaving the tool of a run is executed at most once,
\* even counting only the requests that read the run in the pre-state pending.
C4_ExecutedAtMostOnce ==
    \A r \in Runs : Cardinality({c \in CallsOf(r) : c.seenStatus = "pending"}) <= 1

\* the transitions of the status state machine
ValidTransitions(approvalRequired) ==
    {<<"pending", "approved">>, <<"approved", "running">>, <<"running", "completed">>,
     <<"approved", "failed">>, <<"running", "failed">>}
    \cup (IF approvalRequired THEN {} ELSE {<<"pending", "running">>})

\* C5: every change of the status stored for a run is a transition of the
\* state machine, so that no state is skipped: completed and failed are only
\* ever written over running (failed also over approved).
C5_StatusPath ==
    [][\A r \in DOMAIN toolRuns :
          \/ toolRuns'[r].status = toolRuns[r].status
          \/ <<toolRuns[r].status, toolRuns'[r].status>>
                 \in ValidTransitions(toolRuns[r].approvalRequired)]_vars

\* C6: a run stored as completed holds a successful result, a run whose
\* execution failed is stored as failed with errorMessage set.
C6_OutcomeReflected ==
    \A r \in Runs :
        /\ toolRuns[r].status = "completed" =>
              "success" \in DOMAIN toolRuns[r].result /\ toolRuns[r].result.success
        /\ toolRuns[r].status = "failed" => toolRuns[r].errorMessage # ""

\* C7: an executeTool call for a scan of a target that is not allowed, or for
\* an unsupported tool, spawns no process and its outcome is an error.
C7_PolicyRejectsBeforeSpawn ==
    /\ \A c \in calls :
          PolicyViolation(c.toolName, c.arguments) => c.spawned = 0 /\ ~c.success
    /\ \A p \in 1..MaxReqs :
          (reqs[p].pc = "update" /\ PolicyViolation(reqs[p].toolRun.toolName, reqs[p].toolRun.arguments))
          => ~reqs[p].result.success /\ reqs[p].result.error # ""

\* C7 witness: both kinds of policy violation have been through executeTool
C7_Witness ==
    /\ \E c \in calls : c.toolName = "nmap" /\ ~isTargetAllowed(c.arguments.target) /\ c.spawned = 0
    /\ \E c \in calls : c.toolName \notin SupportedTools /\ ~c.success

\* C8: the run of a scan whose target is not allowed never has status running.
C8_DisallowedNeverRunning ==
    \A r \in Runs :
        (toolRuns[r].toolName = "nmap" /\ ~isTargetAllowed(toolRuns[r].arguments.target))
        => toolRuns[r].status # "running"

\* C9: whatever the tool name and the other arguments, a target outside the
\* allow-list gives risk level high.
C9_HighForEveryTool ==
    (probe.op = "assessRiskLevel" /\ ~isTargetAllowed(probe.arguments.target))
    => probe.risk = "high"

\* C9 amended: for nmap and for every unsupported tool name, whatever the scan
\* type, a target outside the allow-list gives risk level high.
C9_HighForScans ==
    (/\ probe.op = "assessRiskLevel"
     /\ ~isTargetAllowed(probe.arguments.target)
     /\ probe.toolName \notin {"domain_intel", "whois", "dns_lookup"})
    => probe.risk = "high"

\* C9 witness: an aggressive scan of a public address was assessed as high
C9_Witness ==
    /\ probe.op = "assessRiskLevel"
    /\ probe.toolName = "nmap"
    /\ probe.arguments.scanType = "service"
    /\ probe.arguments.target = Ip(8, 8, 8, 8)
    /\ probe.risk = "high"

\* C10: isTargetAllowed(t) holds exactly when t is 127.0.0.1 or localhost or
\* an address inside one of the three private ranges, and for no public IPv4
\* literal.
C10_AllowedIffPrivate ==
    probe.op = "isTargetAllowed" =>
        LET t == probe.arguments.target IN
        /\ probe.allowed <=> (t = Str127001 \/ t = StrLocalhost \/ InPrivateRange(t))
        /\ (IsIPv4Literal(t) /\ ~InPrivateRange(t) /\ t # Str127001) => ~probe.allowed

\* C11: approvedBy and approvedAt are set exactly on the runs that were created
\* with approvalRequired = true and have reached running or beyond; a run
\* created with approvalRequired = false never acquires them.
C11_ApprovalFieldsIffGated ==
    \A r \in Runs :
        /\ toolRuns[r].approvedBy # NoUser <=> toolRuns[r].approvedAt # 0
        /\ toolRuns[r].approvedBy # NoUser
              <=> (/\ toolRuns[r].approvalRequired
                   /\ toolRuns[r].status \in {"running", "completed", "failed"})

\* a result other than the column default {} is stored
ResultPresent(r) == toolRuns[r].result # EmptyObject

ErrorMessagePresent(r) == toolRuns[r].errorMessage # ""

\* C12: result and errorMessage are never both present, both are absent while
\* the status is pending or approved, result is present only on a completed
\* run and errorMessage only on a failed one.
C12_ResultErrorExclusive ==
    \A r \in Runs :
        /\ ~(ResultPresent(r) /\ ErrorMessagePresent(r))
        /\ toolRuns[r].status \in {"pending", "approved"}
              => ~ResultPresent(r) /\ ~ErrorMessagePresent(r)
        /\ ResultPresent(r) => toolRuns[r].status = "completed"
        /\ ErrorMessagePresent(r) => toolRuns[r].status = "failed"

\* C12 witness: a pending run with neither field beside a completed run that
\* holds the outcome of a failed execution as its result and no errorMessage
C12_Witness ==
    /\ \E r \in Runs :
          toolRuns[r].status = "pending" /\ ~ResultPresent(r) /\ ~ErrorMessagePresent(r)
    /\ \E r \in Runs :
          /\ toolRuns[r].status = "completed"
          /\ ResultPresent(r)
          /\ toolRuns[r].result.error # ""
          /\ ~ErrorMessagePresent(r)

\* C13: no step changes riskLevel or approvalRequired of an existing run.
C13_RiskAndFlagFixed ==
    [][\A r \in DOMAIN toolRuns :
          /\ toolRuns'[r].riskLevel = toolRuns[r].riskLevel
          /\ toolRuns'[r].approvalRequired = toolRuns[r].approvalRequired]_vars

\* C13 witness: an approved run whose execution failed, the outcome reporting
\* high, still carries the low risk level and the flag it was created with
C13_Witness ==
    \E r \in Runs :
        /\ toolRuns[r].status = "completed"
        /\ toolRuns[r].approvedBy # NoUser
        /\ toolRuns[r].approvalRequired
        /\ toolRuns[r].riskLevel = "low"
        /\ toolRuns[r].result.riskLevel = "high"

\* C19: an approve request for an id that matches no run is answered with
\* 404 Not Found; it executes no tool and creates or modifies no run.
C19_ApproveUnknownNotFound ==
    [][\A p \in 1..MaxReqs :
          (/\ reqs[p].pc = "idle"
           /\ reqs'[p].kind = "approve"
           /\ reqs'[p].user # NoUser
           /\ reqs'[p].toolRunId \notin DOMAIN toolRuns)
          => /\ reqs'[p].pc = "done"
             /\ reqs'[p].response = 404
             /\ calls' = calls
             /\ toolRuns' = toolRuns]_vars

\* C19 witness: an approver's request for an id no run has was answered 404
\* while the table held another run, and no tool was executed for that id
C19_Witness ==
    \E p \in 1..MaxReqs :
        /\ reqs[p].kind = "approve"
        /\ reqs[p].user # NoUser
        /\ reqs[p].response = 404
        /\ reqs[p].toolRunId \notin Runs
        /\ Runs # {}
        /\ CallsOf(reqs[p].toolRunId) = {}

\* C18: a run in a terminal status has an auditLog entry on its record and
\* finalized executedAt and completedAt.
C18_AuditLogOnTerminal ==
    \A r \in Runs :
        toolRuns[r].status \in {"completed", "failed"}
        => /\ toolRuns[r].auditLog # EmptyObject
           /\ toolRuns[r].executedAt # 0
           /\ toolRuns[r].completedAt # 0

\* C20: once the request that executed a scan, whois or DNS tool whose
\* command exited with a non-zero code has finished, the run is failed with
\* errorMessage set, and it is not a completed run.
C20_NonZeroExitRecordedFailed ==
    \A r \in Runs : \A c \in CallsOf(r) :
        (/\ c.toolName \in {"nmap", "whois", "dns_lookup"}
         /\ \E code \in c.exitCodes : code # 0
         /\ reqs[c.req].pc = "done")
        => /\ toolRuns[r].status = "failed"
           /\ toolRuns[r].errorMessage # ""

\* what an adapter threw has become an unsuccessful outcome with a message
ThrowReported(toolName, args, cmd) ==
    Dispatch(toolName, args, cmd).threw
    => /\ ~executeTool(toolName, args, cmd).success
       /\ executeTool(toolName, args, cmd).error # ""

EndedByTimeout ==
    /\ command.timedOut
    /\ ~command.killed
    /\ command.child = "exited"
    /\ command.code = NullCode

\* C14: a command that was still running at the timeout and was ended by it
\* makes the call fail with a Timeout error; the call never returns a normal
\* result for it.
C14_TimeoutFails ==
    (EndedByTimeout /\ command.promise # "pending")
    => command.promise = "rejected" /\ command.error = "Timeout"

\* C15: when the call has returned or failed to its caller, on whatever
\* path, the child it spawned is no longer running.
C15_NoChildLeftRunning ==
    command.promise # "pending" => command.child # "alive"

\* C16: once the stdout chunks received add up to more than maxOutputSize the
\* call has killed the child and has failed with the output-limit error, and
\* the captured stdout is never longer than the cap plus one chunk.
C16_OutputCapped ==
    /\ command.outputSize > command.maxSize
          => /\ command.killed
             /\ command.promise = "rejected"
             /\ command.error = "Output size limit exceeded"
    /\ command.stdout <= command.maxSize + MaxChunk

\* C16 witness: chunks were captured up to the cap, a later chunk went over
\* it and the call failed with the output-limit error
C16_Witness ==
    /\ command.stdout = command.maxSize
    /\ command.stdout > 0
    /\ command.outputSize > command.maxSize
    /\ command.killed
    /\ command.promise = "rejected"
    /\ command.error = "Output size limit exceeded"

\* C27: an approve request executes a run only when the run's session is
\* owned by the user who made the request.
C27_ApprovedByOwnerOnly ==
    \A r \in Runs : \A c \in CallsOf(r) :
        c.kind = "approve" => sessions[toolRuns[r].sessionId] = c.user

\* C29: the tool name and the arguments an approve request passes to
\* executeTool are those stored on the run, the stored risk level is the one
\* assessed on them, and no step changes toolName or arguments of a run.
C29_ApproveExecutesRecorded ==
    /\ [](\A r \in Runs :
             /\ toolRuns[r].riskLevel
                   = assessRiskLevel(toolRuns[r].toolName, toolRuns[r].arguments)
             /\ \A c \in CallsOf(r) :
                   c.kind = "approve"
                   => /\ c.toolName = toolRuns[r].toolName
                      /\ c.arguments = toolRuns[r].arguments)
    /\ [][\A r \in DOMAIN toolRuns :
             /\ toolRuns'[r].toolName = toolRuns[r].toolName
             /\ toolRuns'[r].arguments = toolRuns[r].arguments]_vars

\* C29 witness: an approved scan was executed with the target and the scan
\* type stored on its run
C29_Witness ==
    \E r \in Runs : \E c \in CallsOf(r) :
        /\ c.kind = "approve"
        /\ toolRuns[r].status = "completed"
        /\ toolRuns[r].approvedBy # NoUser
        /\ toolRuns[r].toolName = "nmap"
        /\ c.toolName = "nmap"
        /\ c.arguments = toolRuns[r].arguments
        /\ c.arguments.scanType = "syn"

\* C30: assessRiskLevel gives high for an unknown tool name, low for
\* domain_intel, whois and dns_lookup whatever the arguments, for nmap with an
\* allowed target medium exactly for the scan types syn, udp and service and
\* low otherwise; its value is always low, medium or high, and the same
\* for the same input.
C30_RiskTable ==
    probe.op = "assessRiskLevel" =>
        LET args == probe.arguments IN
        /\ probe.risk \in {"low", "medium", "high"}
        /\ probe.risk = assessRiskLevel(probe.toolName, args)
        /\ probe.toolName \notin SupportedTools => probe.risk = "high"
        /\ probe.toolName \in {"domain_intel", "whois", "dns_lookup"} => probe.risk = "low"
        /\ (probe.toolName = "nmap" /\ isTargetAllowed(args.target))
              => /\ probe.risk = "medium" <=> args.scanType \in {"syn", "udp", "service"}
                 /\ probe.risk = "low" <=> args.scanType \notin {"syn", "udp", "service"}

\* C30 witness: an unknown tool name with an allowed target was assessed high
C30_Witness ==
    /\ probe.op = "assessRiskLevel"
    /\ probe.toolName = "sqlmap"
    /\ isTargetAllowed(probe.arguments.target)
    /\ probe.arguments.scanType = "ping"
    /\ probe.risk = "high"

\* the port specifications that select every port
FullRangePorts == {"1-65535", "-"}

\* C21: whatever the scan type and the ports string, the argument list built
\* for nmap has the polite timing flag and the rate cap, and its port
\* selection is bounded: the top-ports cap or a -p value that is not the
\* full range.
C21_PoliteCappedArgs ==
    probe.op = "buildNmapArgs" =>
        LET args == probe.args
            flags == 1..(Len(args) - 2)
        IN /\ \E i \in flags : args[i] = "-T2"
           /\ \E i \in flags : args[i] = "--max-rate" /\ args[i + 1] = "100"
           /\ \/ \E i \in flags : args[i] = "--top-ports" /\ args[i + 1] = "100"
              \/ \E i \in flags : args[i] = "-p" /\ args[i + 1] \notin FullRangePorts

\* the candidates whose lookup returned at least one record
Resolving(dns) ==
    {c \in Candidates : ~executeCommand(dns[c].cmd).rejected /\ dns[c].records > 0}

\* the position of an entry's candidate in the candidate list
CandidateIndex(entry, domain) ==
    CHOOSE i \in DOMAIN commonSubdomains : entry.subdomain = FullDomain(commonSubdomains[i], domain)

C22_ClassifierFailsSoft ==
    (probe.op = "analyzeIntent" /\ probe.response.kind \in {"failure", "invalid"})
    => /\ ~probe.output.threw
       /\ probe.output.type = JString("casual_chat")
       /\ probe.output.confidence = JNumber(50)
       /\ probe.output.entities = JObject("")

\* C22 witness: a text that is not JSON was classified as casual chat
C22_Witness ==
    /\ probe.op = "analyzeIntent"
    /\ probe.response.kind = "invalid"
    /\ ~probe.output.threw
    /\ probe.output.type = JString("casual_chat")

\* C23: whatever the completion, the type analyzeIntent returns is one of the
\* four intents.
C23_TypeIsKnownIntent ==
    probe.op = "analyzeIntent" => probe.output.type \in {JString(t) : t \in IntentTypes}

\* a completion that is a plan of the required shape: an object with a goal
\* string and a non-empty steps array whose elements have id and description
ValidPlanShape(response) ==
    /\ response.kind = "json"
    /\ response.top = "object"
    /\ response.goal.kind = "string"
    /\ response.steps.kind = "array"
    /\ Len(response.steps.items) > 0
    /\ \A i \in DOMAIN response.steps.items :
          /\ response.steps.items[i].kind = "object"
          /\ response.steps.items[i].id # Undefined
          /\ response.steps.items[i].description # Undefined

\* C24: a plan that is not failed has a goal string and a non-empty steps
\* array whose steps have id and description; every step of every plan is
\* pending and currentStep is 0; a completion of another shape gives a
\* failed plan.
C24_PlanValidated ==
    probe.op = "generateAgentPlan" =>
        LET plan == probe.output IN
        /\ plan.status # "failed"
              => /\ plan.goal.kind = "string"
                 /\ Len(plan.steps) > 0
                 /\ \A i \in DOMAIN plan.steps :
                       plan.steps[i].id # Undefined /\ plan.steps[i].description # Undefined
        /\ \A i \in DOMAIN plan.steps : plan.steps[i].status = JString("pending")
        /\ plan.currentStep = 0
        /\ ~ValidPlanShape(probe.response) => plan.status = "failed"

\* C25: when the completion service fails or the completion is not a valid
\* plan, generateAgentPlan throws nothing and returns a failed plan with no
\* steps.
C25_PlannerFailsSoft ==
    (probe.op = "generateAgentPlan" /\ ~ValidPlanShape(probe.response))
    => /\ ~probe.output.threw
       /\ probe.output.status = "failed"
       /\ probe.output.steps = <<>>

\* C28: processMessage executes nothing: it leaves the ledger, the log of
\* executeTool calls and the command runner as they are, and every tool call
\* it returns is pending with the risk level assessRiskLevel gives for its
\* tool name and arguments.
C28_MessageExecutesNothing ==
    /\ [](probe.op = "processMessage" =>
             \A i \in DOMAIN probe.output.toolCalls :
                 LET call == probe.output.toolCalls[i] IN
                 /\ call.status = "pending"
                 /\ call.riskLevel = assessRiskLevel(call.toolName, call.arguments))
    /\ [][probe'.op = "processMessage" =>
             /\ toolRuns' = toolRuns
             /\ calls' = calls
             /\ command' = command]_vars

\* C28 witness: a message classified as tool_execution came back with two
\* tool calls, a low-risk scan among them, both pending and nothing executed
C28_Witness ==
    /\ probe.op = "processMessage"
    /\ probe.output.handler = "tool_execution"
    /\ Len(probe.output.toolCalls) = 2
    /\ probe.output.toolCalls[1].toolName = "nmap"
    /\ probe.output.toolCalls[1].riskLevel = "low"
    /\ probe.output.toolCalls[1].status = "pending"
    /\ calls = {}
    /\ toolRuns = [i \in {} |-> NoRow]

====
